---- MODULE Spec2Model ----
(***************************************************************************)
(* Model of src/src/signatures.py: get_signatures and the three routines   *)
(* it dispatches to (ks_test, permutation, welchs_ttest), the multiple-    *)
(* testing correction (p_val_correction, statsmodels multipletests), the   *)
(* significance label and the on/off split.                                *)
(*                                                                         *)
(* One call of get_signatures is a run of the steps                        *)
(*   Call -> TestFeature* -> BuildFrame -> Correct -> Label -> Split       *)
(* and any step may end the call with a raised exception.                  *)
(***************************************************************************)
EXTENDS Integers, Sequences, FiniteSets, TLC

\* Longest morph_feats list that is explored.
MaxFeats == 2
\* Largest integer seed that is explored (seeds are 0..MaxSeed, or None).
MaxSeed == 1

(***************************************************************************)
(* Floating point values: not-a-number, or an exact fraction n/d (d > 0).  *)
(***************************************************************************)
NaN == [nan |-> TRUE, n |-> 0, d |-> 1]
Rat(n, d) == [nan |-> FALSE, n |-> n, d |-> d]
IsNaN(v) == v.nan

\* IEEE comparisons, as numpy makes them: false when either side is NaN.
NumLess(a, b) == ~a.nan /\ ~b.nan /\ a.n * b.d < b.n * a.d
NumEq(a, b) == ~a.nan /\ ~b.nan /\ a.n * b.d = b.n * a.d
\* The same float (NaN taken as equal to NaN): used to compare results.
SameVal(a, b) == (a.nan /\ b.nan) \/ NumEq(a, b)

\* polars `<` on floats: NaN is ordered above every number.
PlLess(a, b) == ~a.nan /\ (b.nan \/ a.n * b.d < b.n * a.d)

Scaled(a, k) == IF a.nan THEN NaN ELSE Rat(a.n * k, a.d)
Over(a, k) == IF a.nan THEN NaN ELSE Rat(a.n, a.d * k)
\* numpy.minimum: a NaN operand is returned.
NpMinimum(a, b) == IF a.nan THEN a ELSE IF b.nan THEN b ELSE IF NumLess(b, a) THEN b ELSE a
\* pvals_corrected[pvals_corrected > 1] = 1
ClipOne(a) == IF NumLess(Rat(1, 1), a) THEN Rat(1, 1) ELSE a

(***************************************************************************)
(* The inputs of a call.                                                   *)
(***************************************************************************)
Names == {"F1", "F2"}
FeatLists == UNION {[1..n -> Names] : n \in 0..MaxFeats}
Methods == {"ks_test", "permutation_test", "welchs_ttest", "welch_ttest", "weighted_ks"}
FdrMethods == {"fdr_bh", "bonferroni", "no_such_correction"}
Thresholds == {Rat(0, 1), Rat(1, 20), Rat(1, 10)}
NoSeed == [some |-> FALSE, v |-> 0]
Seed(v) == [some |-> TRUE, v |-> v]
Seeds == {Seed(v) : v \in 0..MaxSeed} \cup {NoSeed}
\* States of a random generator; RandomState(s) starts in state s.
RngStates == 0..(MaxSeed + 1)
Advance(r) == (r + 1) % (MaxSeed + 2)

(***************************************************************************)
(* A profile pair is described per feature name by the columns that exist  *)
(* and by what each library routine does on that pair of columns: return a *)
(* p-value or raise.  The permutation test also depends on the state of    *)
(* the generator it draws from.                                            *)
(***************************************************************************)
Ok(p) == [raises |-> "none", p |-> p]
Raises(e) == [raises |-> e, p |-> NaN]
Const(o) == [r \in RngStates |-> o]
Cell(inRef, inExp, ks, tt, perm) == [ref |-> inRef, exp |-> inExp, ks |-> ks, tt |-> tt, perm |-> perm]
StrongCell == Cell(TRUE, TRUE, Ok(Rat(1, 100)), Ok(Rat(1, 100)), Const(Ok(Rat(1, 100))))
EdgeCell == Cell(TRUE, TRUE, Ok(Rat(1, 20)), Ok(Rat(1, 40)), [r \in RngStates |-> IF r = 0 THEN Ok(Rat(1, 40)) ELSE Ok(Rat(1, 10))])
NullCell == Cell(TRUE, TRUE, Ok(Rat(1, 2)), Ok(Rat(1, 2)), Const(Ok(Rat(1, 2))))
DegenerateCell == Cell(TRUE, TRUE, Raises("ValueError"), Raises("ValueError"), Const(Raises("ValueError")))
TextCell == Cell(TRUE, TRUE, Raises("TypeError"), Raises("TypeError"), Const(Raises("TypeError")))
NoRefCell == Cell(FALSE, TRUE, Raises("ColumnNotFoundError"), Raises("ColumnNotFoundError"), Const(Raises("ColumnNotFoundError")))
NoExpCell == Cell(TRUE, FALSE, Raises("ColumnNotFoundError"), Raises("ColumnNotFoundError"), Const(Raises("ColumnNotFoundError")))
\* Reference ten 0s, experimental ten 5s: both samples have zero variance.
\* ks_2samp: exact p = 2 / C(20, 10).  ttest_ind (statsmodels, unequal
\* variances): the standard error is 0 and the Satterthwaite degrees of
\* freedom are 0/0, so the statistic is infinite and the p-value returned is
\* NaN (no exception).  permutation_test: 2 * (0 + 1) / (1000 + 1).
ZeroVarianceCell == Cell(TRUE, TRUE, Ok(Rat(1, 92378)), Ok(NaN), Const(Ok(Rat(2, 1001))))
FullCells == {StrongCell, EdgeCell, NullCell, DegenerateCell, TextCell, ZeroVarianceCell}
Cells == FullCells \cup {NoRefCell, NoExpCell}
Profiles == [Names -> Cells]

Inputs == [profiles : Profiles, morph_feats : FeatLists, method : Methods, fdr_method : FdrMethods, p_threshold : Thresholds, seed : Seeds]

VARIABLES
  rng,          \* state of numpy's process-wide generator
  rngBefore,    \* its state when the current call was entered
  args,         \* the arguments of the current call
  pc,           \* position in the call
  error,        \* the exception that ended the call ("" if none)
  idx,          \* loop index into morph_feats
  pvals,        \* the pvals dictionary, in insertion order
  features,     \* column "features" of pvals_df
  p_value,      \* column "p_value" ("pval") of pvals_df
  corrected,    \* column "corrected_p_value"
  labels,       \* column "is_significant"
  on,           \* on_morphology_feats
  off,          \* off_morphology_feats
  testCalls,    \* library tests invoked in this call
  corrCalls,    \* invocations of p_val_correction in this call
  first         \* the first completed call (used by SpecPair only)

vars == <<rng, rngBefore, args, pc, error, idx, pvals, features, p_value, corrected, labels, on, off, testCalls, corrCalls, first>>

(***************************************************************************)
(* The pvals dictionary: key/value pairs in insertion order.  Assigning to *)
(* a key that is present keeps the key's position.                         *)
(***************************************************************************)
DictHas(d, k) == \E i \in 1..Len(d) : d[i].k = k
DictSet(d, k, v) == IF DictHas(d, k) THEN [i \in 1..Len(d) |-> IF d[i].k = k THEN [k |-> k, v |-> v] ELSE d[i]] ELSE Append(d, [k |-> k, v |-> v])
DictGet(d, k) == d[CHOOSE i \in 1..Len(d) : d[i].k = k].v
DictKeys(d) == [i \in 1..Len(d) |-> d[i].k]
DictValues(d) == [i \in 1..Len(d) |-> d[i].v]

(***************************************************************************)
(* multipletests of statsmodels, as p_val_correction calls it:             *)
(* sort (NaN last), correct the sorted values, clip at 1, undo the sort.   *)
(***************************************************************************)
\* numpy.argsort: ascending, NaN after every number. Equal values get equal
\* corrected values, so the order among ties does not show in the result.
SortsBefore(ps, i, j) == NumLess(ps[i], ps[j]) \/ (~ps[i].nan /\ ps[j].nan) \/ (SameVal(ps[i], ps[j]) /\ i < j)
ArgSort(ps) == CHOOSE s \in [1..Len(ps) -> 1..Len(ps)] : \A k, l \in 1..Len(ps) : k < l => SortsBefore(ps, s[k], s[l])

RECURSIVE MinAccumulate(_, _)
\* entry i of np.minimum.accumulate(raw[::-1])[::-1]
MinAccumulate(raw, i) == IF i = Len(raw) THEN raw[i] ELSE NpMinimum(MinAccumulate(raw, i + 1), raw[i])

\* fdrcorrection(method="indep") on sorted p-values: p * n / rank, then the
\* running minimum from the largest rank down.
FdrCorrection(sorted) == LET n == Len(sorted)
                             raw == [i \in 1..n |-> Over(Scaled(sorted[i], n), i)]
                         IN [i \in 1..n |-> MinAccumulate(raw, i)]

\* Bonferroni: p * ntests.
Bonferroni(sorted) == [i \in 1..Len(sorted) |-> Scaled(sorted[i], Len(sorted))]

RecognizedCorrections == {"fdr_bh", "bonferroni"}

Multipletests(pvalues, method) ==
  LET n == Len(pvalues)
      sortind == ArgSort(pvalues)
      sorted == [k \in 1..n |-> pvalues[sortind[k]]]
      raw == IF method = "bonferroni" THEN Bonferroni(sorted) ELSE FdrCorrection(sorted)
      clipped == [k \in 1..n |-> ClipOne(raw[k])]
      unsorted == [i \in 1..n |-> clipped[CHOOSE k \in 1..n : sortind[k] = i]]
  IN IF n = 0 THEN [raises |-> "ZeroDivisionError", vals |-> <<>>]
     ELSE IF method \notin RecognizedCorrections THEN [raises |-> "ValueError", vals |-> <<>>]
     ELSE [raises |-> "none", vals |-> unsorted]

p_val_correction(p_values, method) == Multipletests(p_values, method)

(***************************************************************************)
(* __add_significance_label and __split_morphology_features.               *)
(***************************************************************************)
\* Variant: ties count as significant (<= instead of <).
IsSignificant_orEqual(c, sig_threshold) == PlLess(c, sig_threshold) \/ NumEq(c, sig_threshold)
\* Variant: the comparison is inverted (> instead of <).
IsSignificant_inverted(c, sig_threshold) == PlLess(sig_threshold, c)
\* Variant: "not (c >= threshold)" in IEEE terms, which is true of a NaN.
IsSignificant_unlessAtLeast(c, sig_threshold) == c.nan \/ PlLess(c, sig_threshold)
IsSignificant(c, sig_threshold) == PlLess(c, sig_threshold)
add_significance_label(corr, sig_threshold) == [i \in 1..Len(corr) |-> IsSignificant(corr[i], sig_threshold)]

RECURSIVE FilterRows(_, _, _)
\* pval_df.filter(mask)["features"].to_list()
FilterRows(feats, mask, i) == IF i > Len(feats) THEN <<>> ELSE (IF mask[i] THEN <<feats[i]>> ELSE <<>>) \o FilterRows(feats, mask, i + 1)
on_morph_feats(feats, sig) == FilterRows(feats, sig, 1)
\* Variant: rows whose corrected p-value is not a number are dropped from "off".
off_morph_feats_numbers_only(feats, sig) == FilterRows(feats, [i \in 1..Len(sig) |-> ~sig[i] /\ ~corrected[i].nan], 1)
off_morph_feats(feats, sig) == FilterRows(feats, [i \in 1..Len(sig) |-> ~sig[i]], 1)

(***************************************************************************)
(* The loop bodies.  Each gives what one iteration does on a feature:      *)
(* abort (the exception that leaves the routine, "" if none), the value    *)
(* stored in pvals, and whether the library test was invoked.              *)
(***************************************************************************)
HasColumns(cell) == cell.ref /\ cell.exp
Iteration(abort, v, tested) == [abort |-> abort, v |-> v, tested |-> tested]

\* ks_test: column access and ks_2samp are inside try/except Exception.
ks_body(cell) == IF ~HasColumns(cell) THEN Iteration("", NaN, FALSE)
                 ELSE IF cell.ks.raises # "none" THEN Iteration("", NaN, TRUE)
                 ELSE Iteration("", cell.ks.p, TRUE)

\* welchs_ttest: column access and ttest_ind are inside try/except ValueError.
welch_body(cell) == IF ~HasColumns(cell) THEN Iteration("ColumnNotFoundError", NaN, FALSE)
                    ELSE IF cell.tt.raises = "ValueError" THEN Iteration("", NaN, TRUE)
                    ELSE IF cell.tt.raises # "none" THEN Iteration(cell.tt.raises, NaN, TRUE)
                    ELSE Iteration("", cell.tt.p, TRUE)

\* permutation_test(random_state=seed): an integer seed makes a new generator
\* in the state of that seed; None draws from the process-wide generator.
\* Variant: the seed is not handed on and the process-wide generator is used
\* as it stood when the call was entered.
perm_stream_ambient(seed, global) == rngBefore
perm_stream(seed, global) == IF seed.some THEN seed.v ELSE global

\* permutation: column access is before the try; permutation_test is inside
\* try/except Exception.
perm_body(cell, seed, global) == IF ~HasColumns(cell) THEN Iteration("ColumnNotFoundError", NaN, FALSE)
                                 ELSE IF cell.perm[perm_stream(seed, global)].raises # "none" THEN Iteration("", NaN, TRUE)
                                 ELSE Iteration("", cell.perm[perm_stream(seed, global)].p, TRUE)

loop_body(method, cell, seed, global) == IF method = "ks_test" THEN ks_body(cell)
                                         ELSE IF method = "permutation_test" THEN perm_body(cell, seed, global)
                                         ELSE welch_body(cell)

(***************************************************************************)
(* The result table each routine builds after its loop.                    *)
(***************************************************************************)
Frame(raises, f, p) == [raises |-> raises, features |-> f, p_value |-> p]
\* ks_test: "features": morph_feats, "p_value": pvals.values()
ks_frame(morph_feats, d) == IF Len(morph_feats) # Len(d) THEN Frame("ShapeError", <<>>, <<>>) ELSE Frame("none", morph_feats, DictValues(d))
\* permutation: "features": pvals.keys(), "p_value": pvals.values()
\* Variant: the dictionary is read back to front.
perm_frame_reversed(morph_feats, d) == Frame("none", [i \in 1..Len(d) |-> d[Len(d) + 1 - i].k], [i \in 1..Len(d) |-> d[Len(d) + 1 - i].v])
perm_frame(morph_feats, d) == Frame("none", DictKeys(d), DictValues(d))
\* welchs_ttest: "features": morph_feats, "pval": [pvals[f] for f in morph_feats]
welch_frame(morph_feats, d) == Frame("none", morph_feats, [i \in 1..Len(morph_feats) |-> DictGet(d, morph_feats[i])])
build_frame(method, morph_feats, d) == IF method = "ks_test" THEN ks_frame(morph_feats, d)
                                       ELSE IF method = "permutation_test" THEN perm_frame(morph_feats, d)
                                       ELSE welch_frame(morph_feats, d)

(***************************************************************************)
(* get_signatures                                                          *)
(***************************************************************************)
\* Variant: the four tags of the design document.
supported_methods_four_tags == {"welch_ttest", "ks_test", "permutation_test", "weighted_ks"}
supported_methods == {"ks_test", "permutation_test", "welchs_ttest"}

\* np.random.seed(seed): an integer seed sets the state; None takes the state
\* from operating-system entropy.
\* Variant: np.random.seed() is called without the seed.
np_random_seed_unseeded(seed, entropy) == entropy
np_random_seed(seed, entropy) == IF seed.some THEN seed.v ELSE entropy

NoArgs == [profiles |-> [f \in Names |-> StrongCell], morph_feats |-> <<>>, method |-> "ks_test", fdr_method |-> "fdr_bh", p_threshold |-> Rat(1, 20), seed |-> Seed(0)]

Init ==
  /\ rng \in RngStates
  /\ rngBefore = rng
  /\ args = NoArgs
  /\ pc = "idle"
  /\ error = ""
  /\ idx = 1
  /\ pvals = <<>>
  /\ features = <<>>
  /\ p_value = <<>>
  /\ corrected = <<>>
  /\ labels = <<>>
  /\ on = <<>>
  /\ off = <<>>
  /\ testCalls = 0
  /\ corrCalls = 0
  /\ first = <<>>

\* Entry of get_signatures with arguments a: seed the process-wide generator,
\* check the method name, dispatch.  (Every argument explored has the type the
\* isinstance checks ask for.)
Enter(a) ==
  /\ rngBefore' = rng
  /\ \E entropy \in RngStates : rng' = np_random_seed(a.seed, entropy)
  /\ args' = a
  /\ idx' = 1
  /\ pvals' = <<>>
  /\ features' = <<>>
  /\ p_value' = <<>>
  /\ corrected' = <<>>
  /\ labels' = <<>>
  /\ on' = <<>>
  /\ off' = <<>>
  /\ testCalls' = 0
  /\ corrCalls' = 0
  /\ IF a.method \notin supported_methods
       THEN pc' = "raised" /\ error' = "ValueError"
       ELSE pc' = "loop" /\ error' = ""

Call ==
  /\ pc = "idle"
  /\ \E a \in Inputs : Enter(a)
  /\ UNCHANGED first

\* Variant of TestFeature: the correction is also invoked inside the loop.
TestFeature_correcting ==
  /\ pc = "loop"
  /\ idx <= Len(args.morph_feats)
  /\ LET f == args.morph_feats[idx]
         it == loop_body(args.method, args.profiles[f], args.seed, rng)
     IN /\ testCalls' = testCalls + (IF it.tested THEN 1 ELSE 0)
        /\ rng' = IF args.method = "permutation_test" /\ it.tested /\ ~args.seed.some THEN Advance(rng) ELSE rng
        /\ IF it.abort # ""
             THEN pc' = "raised" /\ error' = it.abort /\ UNCHANGED <<idx, pvals>>
             ELSE pc' = "loop" /\ error' = "" /\ idx' = idx + 1 /\ pvals' = DictSet(pvals, f, it.v)
  /\ corrCalls' = corrCalls + 1
  /\ UNCHANGED <<rngBefore, args, features, p_value, corrected, labels, on, off, first>>

\* One iteration of the routine's loop over morph_feats.
TestFeature ==
  /\ pc = "loop"
  /\ idx <= Len(args.morph_feats)
  /\ LET f == args.morph_feats[idx]
         it == loop_body(args.method, args.profiles[f], args.seed, rng)
     IN /\ testCalls' = testCalls + (IF it.tested THEN 1 ELSE 0)
        /\ rng' = IF args.method = "permutation_test" /\ it.tested /\ ~args.seed.some THEN Advance(rng) ELSE rng
        /\ IF it.abort # ""
             THEN pc' = "raised" /\ error' = it.abort /\ UNCHANGED <<idx, pvals>>
             ELSE pc' = "loop" /\ error' = "" /\ idx' = idx + 1 /\ pvals' = DictSet(pvals, f, it.v)
  /\ UNCHANGED <<rngBefore, args, features, p_value, corrected, labels, on, off, corrCalls, first>>

\* pl.DataFrame({...}) after the loop.
BuildFrame ==
  /\ pc = "loop"
  /\ idx > Len(args.morph_feats)
  /\ LET fr == build_frame(args.method, args.morph_feats, pvals)
     IN IF fr.raises # "none"
          THEN pc' = "raised" /\ error' = fr.raises /\ UNCHANGED <<features, p_value>>
          ELSE pc' = "correct" /\ error' = "" /\ features' = fr.features /\ p_value' = fr.p_value
  /\ UNCHANGED <<rng, rngBefore, args, idx, pvals, corrected, labels, on, off, testCalls, corrCalls, first>>

\* p_val_correction(pvals_df["p_value"].to_numpy(), method=correction_method)
Correct ==
  /\ pc = "correct"
  /\ corrCalls' = corrCalls + 1
  /\ LET r == p_val_correction(p_value, args.fdr_method)
     IN IF r.raises # "none"
          THEN pc' = "raised" /\ error' = r.raises /\ UNCHANGED corrected
          ELSE pc' = "label" /\ error' = "" /\ corrected' = r.vals
  /\ UNCHANGED <<rng, rngBefore, args, idx, pvals, features, p_value, labels, on, off, testCalls, first>>

\* .pipe(__add_significance_label, sig_threshold=sig_threshold)
Label ==
  /\ pc = "label"
  /\ labels' = add_significance_label(corrected, args.p_threshold)
  /\ pc' = "split"
  /\ UNCHANGED <<rng, rngBefore, args, error, idx, pvals, features, p_value, corrected, on, off, testCalls, corrCalls, first>>

\* __split_morphology_features(pval_df=pvals_df) and the return.
Split ==
  /\ pc = "split"
  /\ on' = on_morph_feats(features, labels)
  /\ off' = off_morph_feats(features, labels)
  /\ pc' = "returned"
  /\ UNCHANGED <<rng, rngBefore, args, error, idx, pvals, features, p_value, corrected, labels, testCalls, corrCalls, first>>

Next == Call \/ TestFeature \/ BuildFrame \/ Correct \/ Label \/ Split

Spec == Init /\ [][Next]_vars

(***************************************************************************)
(* Two calls in a row: a first call, then calls with the same arguments    *)
(* except possibly the threshold, while other code uses the process-wide   *)
(* generator in between.                                                   *)
(***************************************************************************)
PairCells == {StrongCell, EdgeCell, DegenerateCell}
PairInputs == [profiles : [Names -> PairCells], morph_feats : FeatLists, method : supported_methods, fdr_method : RecognizedCorrections, p_threshold : Thresholds, seed : Seeds]

InitPair == Init /\ rng = 0

CallFirst ==
  /\ pc = "idle"
  /\ first = <<>>
  /\ \E a \in PairInputs : Enter(a)
  /\ UNCHANGED first

\* The caller keeps the first call's result.
Remember ==
  /\ pc = "returned"
  /\ first = <<>>
  /\ first' = <<[args |-> args, on |-> on, off |-> off]>>
  /\ pc' = "idle"
  /\ UNCHANGED <<rng, rngBefore, args, error, idx, pvals, features, p_value, corrected, labels, on, off, testCalls, corrCalls>>

\* Other code draws from, or reseeds, numpy's process-wide generator.
OtherRandomUse ==
  /\ pc = "idle"
  /\ first # <<>>
  /\ rng' \in RngStates \ {rng}
  /\ UNCHANGED <<rngBefore, args, pc, error, idx, pvals, features, p_value, corrected, labels, on, off, testCalls, corrCalls, first>>

CallAgain ==
  /\ pc = "idle"
  /\ first # <<>>
  /\ \E t \in Thresholds : Enter([first[1].args EXCEPT !.p_threshold = t])
  /\ UNCHANGED first

NextPair == CallFirst \/ Remember \/ OtherRandomUse \/ CallAgain \/ TestFeature \/ BuildFrame \/ Correct \/ Label \/ Split

SpecPair == InitPair /\ [][NextPair]_vars

(***************************************************************************)
(* Properties                                                              *)
(***************************************************************************)
ToSet(q) == {q[i] : i \in 1..Len(q)}
Distinct(q) == \A i, j \in 1..Len(q) : i # j => q[i] # q[j]
RECURSIVE SubseqFrom(_, _, _, _)
SubseqFrom(a, b, i, j) == IF i > Len(a) THEN TRUE ELSE IF j > Len(b) THEN FALSE ELSE IF a[i] = b[j] THEN SubseqFrom(a, b, i + 1, j + 1) ELSE SubseqFrom(a, b, i, j + 1)
IsSubseq(a, b) == SubseqFrom(a, b, 1, 1)
Requested == ToSet(args.morph_feats)
Started == pc # "idle"
Returned == pc = "returned"
HasTable == pc \in {"correct", "label", "split", "returned"}
HasLabels == pc \in {"split", "returned"}
\* The call was refused at entry because of its method name.
MethodRejected == pc = "raised" /\ error = "ValueError" /\ corrCalls = 0
\* The library routine of the call's method cannot give a value for feature f.
RoutineFails(f) == LET c == args.profiles[f]
                   IN IF args.method = "ks_test" THEN c.ks.raises # "none"
                      ELSE IF args.method = "permutation_test" THEN c.perm[perm_stream(args.seed, rng)].raises # "none"
                      ELSE c.tt.raises # "none"

\* C1: whenever a call with a list of distinct feature names returns, the
\* lengths of on_features and off_features add up to the length of the feature
\* list, the two lists share no name, and together they hold exactly the
\* requested names; features whose test failed (NaN) are included.
C1_Partition == (Returned /\ Distinct(args.morph_feats)) => (/\ Len(on) + Len(off) = Len(args.morph_feats)
                                                             /\ ToSet(on) \cap ToSet(off) = {}
                                                             /\ ToSet(on) \cup ToSet(off) = Requested)
\* A returned partition with one significant feature and one failed feature.
C1_Witness == Returned /\ Distinct(args.morph_feats) /\ Len(on) = 1 /\ Len(off) = 1 /\ \E i \in 1..Len(p_value) : p_value[i].nan

\* C2 (as claimed): when a requested feature's column is missing from either
\* profile, no library test runs for any feature, the missing feature is never
\* recorded in pvals (as NaN or otherwise) and no partition is returned.
C2_MissingFeatureRejected == \A f \in Requested : (Started /\ args.method \in supported_methods /\ ~HasColumns(args.profiles[f]))
                                                      => (~Returned /\ testCalls = 0 /\ ~DictHas(pvals, f))

\* C3 (as claimed): when every requested column exists, a library routine
\* that raises for a feature never ends the call inside the loop, and when the
\* call returns every such feature is in off_features with a NaN p-value.
C3_FailureNeverAborts == (Started /\ args.method \in supported_methods /\ \A f \in Requested : HasColumns(args.profiles[f]))
                            => (/\ (pc = "raised" => idx > Len(args.morph_feats))
                                /\ (Returned /\ Distinct(args.morph_feats)) => \A i \in 1..Len(features) : RoutineFails(features[i]) => (p_value[i].nan /\ features[i] \in ToSet(off)))

\* C4 (as claimed): exactly the tags welch_ttest, ks_test, permutation_test and
\* weighted_ks are accepted; every other method name is refused at entry.
C4_FourMethodTags == Started => (args.method \in {"welch_ttest", "ks_test", "permutation_test", "weighted_ks"} <=> ~MethodRejected)
\* C4 (amended): exactly the tags ks_test, permutation_test and welchs_ttest
\* are accepted; every other method name, welch_ttest and weighted_ks included,
\* is refused at entry with a ValueError before any per-feature test has run.
C4_ThreeMethodTags == Started => (/\ args.method \in {"ks_test", "permutation_test", "welchs_ttest"} <=> ~MethodRejected
                                  /\ MethodRejected => (testCalls = 0 /\ pvals = <<>> /\ idx = 1))
\* The tag weighted_ks was refused at entry.
C4_Witness == MethodRejected /\ args.method = "weighted_ks" /\ Len(args.morph_feats) > 0

\* C5: each significance label is true exactly when the corrected p-value is
\* a number strictly below the threshold; a tie and a NaN are not significant.
C5_StrictLabel == HasLabels => \A i \in 1..Len(labels) : labels[i] <=> (~corrected[i].nan /\ corrected[i].n * args.p_threshold.d < args.p_threshold.n * corrected[i].d)
\* Labels of a table that holds a tie with the threshold and a NaN.
C5_Witness == HasLabels /\ (\E i \in 1..Len(labels) : NumEq(corrected[i], args.p_threshold) /\ ~labels[i]) /\ (\E j \in 1..Len(labels) : corrected[j].nan /\ ~labels[j])

\* C6: for a list of distinct feature names, the result table has one row per
\* requested feature in the order of the list, and on_features and
\* off_features are subsequences of the list, whatever the method.
C6_OrderPreserved == Distinct(args.morph_feats) => (/\ HasTable => (features = args.morph_feats /\ Len(p_value) = Len(args.morph_feats))
                                                    /\ Returned => (IsSubseq(on, args.morph_feats) /\ IsSubseq(off, args.morph_feats)))
\* The permutation routine returned two features of one list in input order.
C6_Witness == Returned /\ args.method = "permutation_test" /\ args.morph_feats = <<"F2", "F1">> /\ (off = <<"F2", "F1">> \/ on = <<"F2", "F1">>)

\* C7: a permutation_test call with an integer seed that repeats the
\* arguments of an earlier call returns the same (on_features, off_features),
\* whatever the process-wide generator held before the call.
C7_Deterministic == (Returned /\ first # <<>> /\ args = first[1].args /\ args.method = "permutation_test" /\ args.seed.some)
                       => (on = first[1].on /\ off = first[1].off)
\* A repeated permutation call on seed-sensitive data, entered with the
\* process-wide generator in another state than the seed's.
C7_Witness == /\ Returned /\ first # <<>> /\ args = first[1].args /\ args.method = "permutation_test" /\ args.seed.some
              /\ rngBefore # args.seed.v /\ Len(on) > 0
              /\ \E f \in Requested : args.profiles[f] = EdgeCell

\* The two calls are repeatable: not a permutation test seeded from entropy.
Repeatable == args.method # "permutation_test" \/ args.seed.some
AtMost(a, b) == ~NumLess(b, a)
\* C8: of two calls that differ only in the threshold, the one with the
\* larger threshold has every on-feature of the other and the one with the
\* smaller threshold has every off-feature of the other.
C8_Monotone == (Returned /\ first # <<>> /\ Repeatable)
                  => (/\ AtMost(first[1].args.p_threshold, args.p_threshold) => (ToSet(first[1].on) \subseteq ToSet(on) /\ ToSet(off) \subseteq ToSet(first[1].off))
                      /\ AtMost(args.p_threshold, first[1].args.p_threshold) => (ToSet(on) \subseteq ToSet(first[1].on) /\ ToSet(first[1].off) \subseteq ToSet(off)))
\* A second call with a larger threshold that gained an on-feature.
C8_Witness == Returned /\ first # <<>> /\ Repeatable /\ NumLess(first[1].args.p_threshold, args.p_threshold) /\ Len(on) > Len(first[1].on) /\ Len(first[1].on) > 0

\* C9: the correction is invoked at most once per call and exactly once in a
\* call that returns, only after the loop has gone through every requested
\* feature, over the whole p-value column; labels exist only after it ran.
C9_CorrectionBarrier == /\ corrCalls <= 1
                        /\ corrCalls = 1 => (idx = Len(args.morph_feats) + 1 /\ pc \notin {"loop", "correct"})
                        /\ pc \in {"label", "split", "returned"} => (corrCalls = 1 /\ Len(corrected) = Len(p_value) /\ Len(p_value) = Len(features))
                        /\ labels # <<>> => (corrCalls = 1 /\ HasLabels)
                        /\ pc \in {"idle", "loop", "correct"} => corrCalls = 0
\* A returned call over two features, one of which failed.
C9_Witness == Returned /\ corrCalls = 1 /\ Len(args.morph_feats) = 2 /\ testCalls = 2 /\ \E i \in 1..Len(p_value) : p_value[i].nan

\* Exclude-and-reinstate: correct the numbers alone, put NaN back in place.
RECURSIVE Numbers(_, _)
Numbers(ps, i) == IF i > Len(ps) THEN <<>> ELSE (IF ps[i].nan THEN <<>> ELSE <<ps[i]>>) \o Numbers(ps, i + 1)
ExcludeAndReinstate(ps, method) == LET kept == Multipletests(Numbers(ps, 1), method).vals
                                       rank(i) == Cardinality({j \in 1..i : ~ps[j].nan})
                                   IN [i \in 1..Len(ps) |-> IF ps[i].nan THEN NaN ELSE kept[rank(i)]]
\* C10 (as claimed): the corrected column has the length and order of the
\* p-value column, is NaN exactly where the p-value is NaN, and elsewhere holds
\* the value obtained by correcting the numbers alone.
C10_ExcludeAndReinstate == pc \in {"label", "split", "returned"} => (/\ Len(corrected) = Len(p_value)
                                                                     /\ \A i \in 1..Len(p_value) : SameVal(corrected[i], ExcludeAndReinstate(p_value, args.fdr_method)[i]))

\* A finite number strictly between 0 and 1.
InOpenUnit(t) == NumLess(Rat(0, 1), t) /\ NumLess(t, Rat(1, 1))
\* C11 (as claimed): with a p_threshold that is not a finite number strictly
\* between 0 and 1, no library test runs, nothing is recorded and no partition
\* is returned.
C11_ThresholdValidated == (Started /\ args.method \in supported_methods /\ ~InOpenUnit(args.p_threshold))
                             => (~Returned /\ testCalls = 0 /\ pvals = <<>>)

\* C12 (as claimed): with a correction name that multipletests does not
\* recognize, no library test runs and nothing is recorded: the call is
\* refused before the per-feature loop.
C12_CorrectionNameValidated == (Started /\ args.method \in supported_methods /\ args.fdr_method \notin RecognizedCorrections)
                                  => (testCalls = 0 /\ pvals = <<>> /\ idx = 1)

\* The scenario: Welch's t-test on the single feature F1, ten 0s against ten 5s.
ZeroVarianceScenario == /\ args.method = "welchs_ttest"
                        /\ args.morph_feats = <<"F1">>
                        /\ args.profiles["F1"] = ZeroVarianceCell
                        /\ args.fdr_method \in RecognizedCorrections
\* C13 (as claimed): in the scenario the raw p-value is a number below 0.05
\* and the call returns F1 in on_features.
C13_ZeroVarianceIsOn == (Started /\ ZeroVarianceScenario)
                           => (/\ HasTable => (~p_value[1].nan /\ NumLess(p_value[1], Rat(1, 20)))
                               /\ Returned => on = <<"F1">>)
\* C13 (amended): in the scenario the test does not raise, the raw p-value is
\* NaN, the call completes, and F1 is returned in off_features, for either
\* correction and any threshold.
C13_ZeroVarianceIsOff == (Started /\ ZeroVarianceScenario)
                            => (/\ pc # "raised"
                                /\ HasTable => (features = <<"F1">> /\ p_value[1].nan)
                                /\ Returned => (on = <<>> /\ off = <<"F1">>))
\* The scenario has returned under the default threshold 0.05.
C13_Witness == Returned /\ ZeroVarianceScenario /\ testCalls = 1 /\ args.p_threshold = Rat(1, 20) /\ off = <<"F1">>

\* C14 (as claimed): when a call returns, the process-wide generator is in the
\* state it had when the call was entered.
C14_GeneratorUntouched == Returned => rng = rngBefore
\* C14 (amended): every call with an integer seed, whatever its method, puts
\* the process-wide generator into the state of that seed at entry and leaves
\* it there until the call ends; the profiles handed in are not changed by
\* any step of the call.
C14_GeneratorReseeded == [][/\ (pc' # "idle" /\ args'.seed.some) => rng' = args'.seed.v
                            /\ Started => args'.profiles = args.profiles]_vars
\* A returned call that left the generator in another state than it found.
C14_Witness == Returned /\ args.seed.some /\ rng = args.seed.v /\ rngBefore # rng /\ args.method = "ks_test"

\* The value the routine of the call's method computes (or the NaN it
\* records) for feature f.
ComputedFor(f) == loop_body(args.method, args.profiles[f], args.seed, rng).v
\* C15 (as claimed): each routine builds a table after its loop, with exactly
\* one row per entry of morph_feats in input order, whose i-th p-value is the
\* one computed for the i-th name, also when features failed and when a name
\* is repeated.
C15_SameTable == /\ pc = "raised" => error # "ShapeError"
                 /\ HasTable => (/\ features = args.morph_feats
                                 /\ Len(p_value) = Len(args.morph_feats)
                                 /\ Repeatable => \A i \in 1..Len(p_value) : SameVal(p_value[i], ComputedFor(args.morph_feats[i])))

====
